---- MODULE Spec2Model ----
(***************************************************************************)
(* A model of the command parser, the Copilot session manager              *)
(* (CopilotService) and the chat loop of app-release-copilot.              *)
(*                                                                         *)
(* Texts are TLA+ strings; a character is a string of length one.          *)
(* Optional values (undefined / null in the source) are sequences of       *)
(* length zero or one: <<>> is "absent", <<v>> is the value v.             *)
(***************************************************************************)
EXTENDS Integers, Sequences, FiniteSets, TLC

VARIABLES
    \* ---- pure functions under test (parseCommand, the export, the extractors)
    input,            \* the argument handed to the function
    parsed,           \* <<>> before the call, <<the value returned>> after
    canonical,        \* history: <<>> or <<[verb, payload]>> the line was typed from
    \* ---- CopilotService
    client,           \* this.client: FALSE = null, TRUE = a CopilotClient
    session,          \* this.session: 0 = undefined, n = the n-th created session
    destroyed,        \* the session ids on which destroy() has been called
    createCalls,      \* number of client.createSession() calls made
    destroyCalls,     \* number of session.destroy() calls made
    currentModel,     \* this.currentModel
    generatedContent, \* this.context.generatedContent: kind -> <<>> or <<text>>
    quotaInfo,        \* this.quotaInfo: <<>> (null) or <<snapshot>>
    handlers,         \* number of handlers subscribed with this.session.on()
    stalePending,     \* earlier requests whose `done` promise is still pending
    promptsSent,      \* number of session.send() calls made
    spc,              \* position of the service call in progress
    req,              \* the request in progress (op, kind, closure variables)
    ret,              \* <<>> or <<the GenerationResult last returned>>
    thrown,           \* <<>> or <<message of the error the last call threw>>
    evCount,          \* number of session events delivered so far
    calls,            \* history: number of service calls made
    lastCall,         \* history: the last service call made
    exitCode,         \* <<>> while the process runs, <<code>> once it has ended
    \* ---- orchestrator (index.ts)
    opc,              \* position of run()
    stateModel,       \* state.model
    lastContent,      \* state.lastContent
    lastContentType,  \* state.lastContentType: <<>> (null) or <<kind>>
    generatedMetadata,\* state.generatedMetadata: field -> <<>> or <<value>>
    errorLine,        \* <<>> or <<the printError() line shown in the last step>>
    commands,         \* number of command lines read by the chat loop
    exported,         \* <<>> or <<the configuration last written by an export>>
    appStoreUrl,      \* state.appInfo.appStoreUrl: <<>> or <<url>>
    failure,          \* history: <<>> or <<the failure a handler raised in the last step>>
    dispatched,       \* history: <<>> or <<the command the last step read and dispatched>>
    lastCtrlCTime,    \* module variable lastCtrlCTime
    interrupts,       \* history: the times of the interrupts handled
    cachedModels,     \* module variable cachedModels: <<>> (null) or <<list>>
    fetchers          \* the calls of fetchAvailableModels(): caller -> position

parseVars == <<input, parsed, canonical>>
svcVars == <<client, session, destroyed, createCalls, destroyCalls, currentModel,
             generatedContent, quotaInfo, handlers, stalePending, promptsSent,
             spc, req, ret, thrown, evCount, calls, lastCall, exitCode>>
orchVars == <<opc, stateModel, lastContent, lastContentType, generatedMetadata,
              errorLine, commands, exported, appStoreUrl, failure, dispatched>>
clockVars == <<lastCtrlCTime, interrupts>>
fetchVars == <<cachedModels, fetchers>>
vars == <<parseVars, fetchVars, svcVars, orchVars, clockVars>>

-----------------------------------------------------------------------------
(* Bounds of the model.                                                    *)

MaxLen == 2        \* longest string drawn from ParseAlphabet
MaxPad == 1        \* most blanks put around a command line
MaxEvents == 4     \* session events delivered in one run
MaxCalls == MaxEvents \div 2   \* service calls in one run
MaxInterrupts == 2 \* interrupts handled in one run
MaxCommands == 2   \* command lines read in one run
MaxLines == 3      \* lines of a text handed to extractDescription
MaxFetchers == 2   \* callers of fetchAvailableModels

-----------------------------------------------------------------------------
(* Strings.                                                                *)

Ch(s, i) == SubSeq(s, i, i)

UpperAlpha == "ABCDEFGHIJKLMNOPQRSTUVWXYZ"
LowerAlpha == "abcdefghijklmnopqrstuvwxyz"

\* String.prototype.toLowerCase / toUpperCase on one character
LowerChar(c) ==
    IF \E i \in 1..26 : Ch(UpperAlpha, i) = c
    THEN Ch(LowerAlpha, CHOOSE i \in 1..26 : Ch(UpperAlpha, i) = c)
    ELSE c

UpperChar(c) ==
    IF \E i \in 1..26 : Ch(LowerAlpha, i) = c
    THEN Ch(UpperAlpha, CHOOSE i \in 1..26 : Ch(LowerAlpha, i) = c)
    ELSE c

KeepCase(s) == s

\* String.prototype.toLowerCase
RECURSIVE ToLowerCase(_)
ToLowerCase(s) ==
    IF Len(s) = 0 THEN ""
    ELSE LowerChar(Ch(s, 1)) \o ToLowerCase(SubSeq(s, 2, Len(s)))

\* the characters String.prototype.trim() and the regex class \s remove
IsSpace(c) == c \in {" ", "\t", "\n", "\r"}

RECURSIVE TrimStart(_)
TrimStart(s) ==
    IF Len(s) > 0 /\ IsSpace(Ch(s, 1)) THEN TrimStart(SubSeq(s, 2, Len(s))) ELSE s

RECURSIVE TrimEnd(_)
TrimEnd(s) ==
    IF Len(s) > 0 /\ IsSpace(Ch(s, Len(s))) THEN TrimEnd(SubSeq(s, 1, Len(s) - 1)) ELSE s

Trim(s) == TrimEnd(TrimStart(s))

StartsWith(s, p) == Len(s) >= Len(p) /\ SubSeq(s, 1, Len(p)) = p

\* String.prototype.slice(n) for 0 <= n
Slice(s, n) == SubSeq(s, n + 1, Len(s))

-----------------------------------------------------------------------------
(* Command parser: src/unnamed/part_002 (ui/prompts.ts).                   *)

Kinds == {"title", "subtitle", "description", "keywords", "releaseNotes",
          "promoText", "full"}

Content(k) == [type |-> "content", contentType |-> k]
Plain(t) == [type |-> t]

\* the own properties of the COMMAND_MAP object literal
COMMAND_MAP ==
    <<  <<"/title", Content("title")>>,
        <<"/subtitle", Content("subtitle")>>,
        <<"/sub", Content("subtitle")>>,
        <<"/description", Content("description")>>,
        <<"/desc", Content("description")>>,
        <<"/keywords", Content("keywords")>>,
        <<"/kw", Content("keywords")>>,
        <<"/release", Content("releaseNotes")>>,
        <<"/whatsnew", Content("releaseNotes")>>,
        <<"/promo", Content("promoText")>>,
        <<"/tagline", Content("promoText")>>,
        <<"/full", Content("full")>>,
        <<"/all", Content("full")>>,
        <<"/model", Plain("model")>>,
        <<"/copy", Plain("copy")>>,
        <<"/last", Plain("last")>>,
        <<"/back", Plain("last")>>,
        <<"/clear", Plain("clear")>>,
        <<"/cls", Plain("clear")>>,
        <<"/help", Plain("help")>>,
        <<"/h", Plain("help")>>,
        <<"/?", Plain("help")>>,
        <<"/quit", Plain("quit")>>,
        <<"/exit", Plain("quit")>>,
        <<"/q", Plain("quit")>>,
        <<"/export", Plain("export")>>,
        <<"/save", Plain("export")>>,
        <<"/url", Plain("url")>>,
        <<"/import", Plain("url")>>,
        <<"/icon", Plain("icon")>>,
        <<"/feature", Plain("feature")>>,
        <<"/graphic", Plain("feature")>> >>

CommandKeys == {COMMAND_MAP[i][1] : i \in 1..Len(COMMAND_MAP)}

\* COMMAND_MAP is a plain object literal, so a property read also finds what
\* it inherits from Object.prototype.  `lowered` is lower case, so of the
\* inherited names only the all-lower-case ones can be read.
InheritedKeys == {"constructor", "__proto__"}

\* COMMAND_MAP[key]: <<>> when the read gives undefined, else <<value>>
CommandMapGet(key) ==
    IF key \in CommandKeys
    THEN <<COMMAND_MAP[CHOOSE i \in 1..Len(COMMAND_MAP) : COMMAND_MAP[i][1] = key][2]>>
    ELSE IF key \in InheritedKeys
    THEN <<[inherited |-> key]>>
    ELSE <<>>

\* `{ type, prompt: prompt || undefined }`
WithPrompt(t, p) == IF p = "" THEN [type |-> t] ELSE [type |-> t, prompt |-> p]

parseCommand(line) ==
    LET trimmed == Trim(line)
        lowered == ToLowerCase(trimmed)
    IN  IF StartsWith(lowered, "/score ") /\ Trim(Slice(trimmed, 7)) # ""
        THEN [type |-> "score", keyword |-> Trim(Slice(trimmed, 7))]
        ELSE IF StartsWith(lowered, "/icon ")
        THEN WithPrompt("icon", Trim(Slice(trimmed, 6)))
        ELSE IF StartsWith(lowered, "/feature ") \/ StartsWith(lowered, "/graphic ")
        THEN WithPrompt("feature", Trim(Slice(trimmed, 9)))
        ELSE IF CommandMapGet(lowered) # <<>>
        THEN CommandMapGet(lowered)[1]
        ELSE IF trimmed = ""
        THEN [type |-> "chat", message |-> ""]
        ELSE [type |-> "chat", message |-> trimmed]

-----------------------------------------------------------------------------
(* CopilotService: src/src/services/copilot.ts.                            *)

\* getFallbackModels(): the ids a model prompt can give
ModelIds == {"gpt-4o", "gpt-4.1", "claude-sonnet-4"}

\* does the regex (#{1,2}\s+[^\n]+) match at position i of s
HeadingAt(s, i) ==
    /\ Ch(s, i) = "#"
    /\ \E k \in {1, 2} :
        /\ i + k <= Len(s)
        /\ k = 2 => Ch(s, i + 1) = "#"
        /\ \E j \in 1..Len(s) :
            /\ i + k + j <= Len(s)
            /\ \A t \in (i + k)..(i + k + j - 1) : IsSpace(Ch(s, t))
            /\ Ch(s, i + k + j) # "\n"

cleanOutput(text) ==
    IF \E i \in 1..Len(text) : HeadingAt(text, i)
    THEN LET index == CHOOSE i \in 1..Len(text) :
                          HeadingAt(text, i) /\ \A h \in 1..(i - 1) : ~HeadingAt(text, h)
         IN  Trim(SubSeq(text, index, Len(text)))
    ELSE Trim(text)

\* a GenerationResult
Success(content) == [content |-> content, success |-> TRUE, error |-> <<>>]
Failure(message) == [content |-> "", success |-> FALSE, error |-> <<message>>]

Running == exitCode = <<>>

\* initialize(): start the client, check authentication, create the session
Initialize(ok) ==
    /\ Running /\ spc = "ready" /\ ~client /\ session = 0
    /\ client' = TRUE
    /\ IF ok
       THEN /\ createCalls' = createCalls + 1
            /\ session' = createCalls + 1
            /\ thrown' = <<>>
       ELSE /\ UNCHANGED <<createCalls, session>>
            /\ thrown' = <<"Failed to connect">>
    /\ UNCHANGED <<destroyed, destroyCalls, currentModel, generatedContent, quotaInfo,
                   handlers, stalePending, promptsSent, spc, req, ret, evCount>>

\* no request: the closure variables of streamGeneration do not exist
NoRequest == [op |-> "none", kind |-> "", output |-> "", toolsCompleted |-> 0,
              done |-> "none", message |-> "", sendFailed |-> FALSE,
              deltas |-> <<>>, terminal |-> <<>>, after |-> <<>>, before |-> <<>>]

SubscribedAfterSend(n) == n

\* the handlers subscribed when session.send() is called: the executor of
\* `done` has run, synchronously, and has called this.session.on()
SubscribedAtSend(n) == n + 1

\* streamGeneration() up to its first await: the Promise executor subscribes
\* the handler with session.on(), then session.send() is called.
\* deltas, terminal, after and before are history: the delta texts delivered
\* to the handler, the first terminal event delivered to it, the type of
\* the latest terminal event delivered to it after the first, the cache
\* entry of the kind when streaming started.
StartStream(op, kind, entry) ==
    /\ handlers' = SubscribedAtSend(handlers)
    /\ promptsSent' = promptsSent + 1
    /\ spc' = "sending"
    /\ req' = [op |-> op, kind |-> kind, output |-> "", toolsCompleted |-> 0,
               done |-> "pending", message |-> "", sendFailed |-> FALSE,
               deltas |-> <<>>, terminal |-> <<>>, after |-> <<>>, before |-> entry]
    /\ UNCHANGED <<ret, thrown>>

CacheMiss(cached, regenerate) == FALSE

\* `cached && !regenerate`: a string is truthy unless it is empty
CacheHit(cached, regenerate) == cached # <<>> /\ cached[1] # "" /\ ~regenerate

\* generate(contentType, {regenerate}) up to its first await
Generate(kind, regenerate) ==
    LET afterDelete == IF regenerate THEN [generatedContent EXCEPT ![kind] = <<>>]
                       ELSE generatedContent
        cached == afterDelete[kind]
    IN  /\ generatedContent' = afterDelete
        /\ IF CacheHit(cached, regenerate)
           THEN /\ ret' = <<Success(cached[1])>>
                /\ req' = NoRequest
                /\ UNCHANGED <<handlers, promptsSent, spc, thrown>>
           ELSE StartStream("generate", kind, cached)
        /\ UNCHANGED <<client, session, destroyed, createCalls, destroyCalls,
                       currentModel, quotaInfo, stalePending, evCount>>

\* refineContent(contentType, currentContent, feedback) up to its first await
RefineContent(kind) ==
    /\ StartStream("refine", kind, generatedContent[kind])
    /\ UNCHANGED <<client, session, destroyed, createCalls, destroyCalls, currentModel,
                   generatedContent, quotaInfo, stalePending, evCount>>

\* scoreKeyword(keyword) up to its first await
ScoreKeyword ==
    /\ StartStream("score", "keywords", generatedContent["keywords"])
    /\ UNCHANGED <<client, session, destroyed, createCalls, destroyCalls, currentModel,
                   generatedContent, quotaInfo, stalePending, evCount>>

\* the cache after generate / refineContent has got `content` from the stream
CacheSet(r, content) ==
    IF r.op \in {"generate", "refine"}
    THEN [generatedContent EXCEPT ![r.kind] = <<content>>]
    ELSE generatedContent

CatchResultGeneric(message) == Failure("Generation failed")

\* what the catch block of generate / refineContent / scoreKeyword returns
CatchResult(message) == Failure(message)

\* the rest of generate / refineContent / scoreKeyword once streamGeneration
\* has returned r.output (settled = "resolved") or thrown `message`
Finish(r, settled, message) ==
    IF settled = "resolved"
    THEN /\ ret' = <<Success(cleanOutput(r.output))>>
         /\ generatedContent' = CacheSet(r, cleanOutput(r.output))
    ELSE /\ ret' = <<CatchResult(message)>>
         /\ UNCHANGED generatedContent

\* session events (SessionEvent) the handler of streamGeneration reads
DeltaTexts == {"A", " ", "# "}
ErrorMessages == {"boom"}
Snapshots == {1}

SessionEvents ==
    {[type |-> "assistant.message_delta", deltaContent |-> d] : d \in DeltaTexts}
    \cup {[type |-> "tool.execution_start"]}
    \cup {[type |-> "tool.execution_complete", success |-> b] : b \in BOOLEAN}
    \cup {[type |-> "assistant.usage", quotaSnapshots |-> <<q>>] : q \in Snapshots}
    \cup {[type |-> "session.idle"]}
    \cup {[type |-> "session.error", message |-> <<m>>] : m \in ErrorMessages}
    \cup {[type |-> "session.error", message |-> <<>>]}

SettleLast(done, outcome) == outcome

\* resolve() / reject() of the `done` promise: a promise settles once, a
\* later resolve() or reject() does nothing
Settle(done, outcome) == IF done = "pending" THEN outcome ELSE done

AppendDeltaInFront(output, delta) == delta \o output

\* `output += event.data.deltaContent`, guarded by the delta being truthy
AppendDelta(output, delta) == IF delta # "" THEN output \o delta ELSE output

\* the closure variables of the request after its handler has run on event e
HandleEvent(r, e) ==
    IF e.type = "assistant.message_delta"
    THEN [r EXCEPT !.output = AppendDelta(r.output, e.deltaContent),
                   !.deltas = Append(r.deltas, e.deltaContent)]
    ELSE IF e.type = "tool.execution_complete"
    THEN [r EXCEPT !.toolsCompleted = IF e.success THEN r.toolsCompleted + 1
                                      ELSE r.toolsCompleted]
    ELSE IF e.type = "session.idle"
    THEN [r EXCEPT !.done = Settle(r.done, "resolved"),
                   !.terminal = IF r.terminal = <<>> THEN <<e>> ELSE r.terminal,
                   !.after = IF r.terminal = <<>> THEN r.after ELSE <<e.type>>]
    ELSE IF e.type = "session.error"
    THEN [r EXCEPT !.done = Settle(r.done, "rejected"),
                   !.message = IF r.done # "pending" THEN r.message
                               ELSE IF e.message # <<>> THEN e.message[1]
                               ELSE "Session error occurred",
                   !.terminal = IF r.terminal = <<>> THEN <<e>> ELSE r.terminal,
                   !.after = IF r.terminal = <<>> THEN r.after ELSE <<e.type>>]
    ELSE r

\* this.quotaInfo after a handler has run on event e
QuotaAfter(e) ==
    IF e.type = "assistant.usage" /\ e.quotaSnapshots # <<>>
    THEN <<[usedRequests |-> e.quotaSnapshots[1], model |-> currentModel]>>
    ELSE quotaInfo

\* The session delivers event e to every handler subscribed to it: the
\* handlers of earlier requests (never unsubscribed) and, when a request is
\* in flight, the handler of that request.  A promise rejected with no
\* consumer is an unhandled rejection: `fatal` says whether the runtime ends
\* the process for it (exit code 1) or only warns.
DeliverEvent(e, fatal) ==
    /\ Running /\ spc \in {"ready", "sending", "awaiting"}
    /\ handlers > 0 /\ session \notin destroyed
    /\ evCount < MaxEvents
    /\ evCount' = evCount + 1
    /\ quotaInfo' = QuotaAfter(e)
    /\ stalePending' = IF e.type \in {"session.idle", "session.error"} THEN 0 ELSE stalePending
    /\ LET r == IF spc = "ready" THEN req ELSE HandleEvent(req, e)
           completes == spc = "awaiting" /\ r.done # "pending"
           unhandled == \/ e.type = "session.error" /\ stalePending > 0
                        \/ spc = "sending" /\ req.done = "pending" /\ r.done = "rejected"
       IN  /\ fatal => unhandled
           /\ exitCode' = IF fatal THEN <<1>> ELSE exitCode
           /\ IF completes
              THEN /\ Finish(r, r.done, r.message)
                   /\ spc' = "ready"
                   /\ req' = r
              ELSE /\ req' = r
                   /\ UNCHANGED <<spc, ret, generatedContent>>
    /\ UNCHANGED <<client, session, destroyed, createCalls, destroyCalls, currentModel,
                   handlers, promptsSent, thrown>>

\* `await this.session.send({ prompt })` returns
SendReturns ==
    /\ Running /\ spc = "sending"
    /\ IF req.done = "pending"
       THEN /\ spc' = "awaiting"
            /\ UNCHANGED <<req, ret, generatedContent>>
       ELSE /\ Finish(req, req.done, req.message)
            /\ spc' = "ready"
            /\ UNCHANGED req
    /\ UNCHANGED <<client, session, destroyed, createCalls, destroyCalls, currentModel,
                   quotaInfo, handlers, stalePending, promptsSent, thrown, evCount, exitCode>>

SendErrorMessage == "send failed"

\* `await this.session.send({ prompt })` throws: streamGeneration rejects
\* and `done` is never awaited
SendThrows ==
    /\ Running /\ spc = "sending"
    /\ Finish(req, "rejected", SendErrorMessage)
    /\ spc' = "ready"
    /\ req' = [req EXCEPT !.sendFailed = TRUE]
    /\ stalePending' = IF req.done = "pending" THEN stalePending + 1 ELSE stalePending
    /\ UNCHANGED <<client, session, destroyed, createCalls, destroyCalls, currentModel,
                   quotaInfo, handlers, promptsSent, thrown, evCount, exitCode>>

\* getFallbackModels(): the ids and premium flags of the hard-coded list
FallbackModels ==
    <<[id |-> "gpt-4o", premium |-> FALSE], [id |-> "gpt-4.1", premium |-> FALSE],
      [id |-> "claude-sonnet-4", premium |-> TRUE]>>

\* what client.listModels() may answer: ModelInfo records with the billing
\* multiplier, <<>> when the backend gives none
BackendLists ==
    {<<>>,
     <<[id |-> "gpt-4o", multiplier |-> <<0>>]>>,
     <<[id |-> "gpt-4.1", multiplier |-> <<>>], [id |-> "o1", multiplier |-> <<2>>]>>}

\* `models.map(m => ({id, name, premium}))`
AvailableModels(models) ==
    [i \in DOMAIN models |->
        [id |-> models[i].id,
         premium |-> IF models[i].multiplier # <<>> /\ models[i].multiplier[1] # 0
                     THEN models[i].multiplier[1] > 1 ELSE FALSE]]

Fetchers == 1..MaxFetchers

\* a caller that has not called fetchAvailableModels()
NotCalled == [pc |-> "idle", models |-> <<>>, result |-> <<>>, failed |-> FALSE]

\* fetchAvailableModels() up to its first await: `if (cachedModels) return
\* cachedModels;`, an array being truthy even when it is empty
FetchCall(i) ==
    /\ fetchers[i].pc \in {"idle", "returned"}
    /\ fetchers' = [fetchers EXCEPT ![i] =
            IF cachedModels # <<>>
            THEN [pc |-> "returned", models |-> <<>>, result |-> cachedModels,
                  failed |-> FALSE]
            ELSE [pc |-> "start", models |-> <<>>, result |-> <<>>, failed |-> FALSE]]
    /\ UNCHANGED cachedModels

\* fetchAvailableModels() from one await to the next: client.start(),
\* getAuthStatus(), listModels(), stop(), then the write of cachedModels;
\* `ok` says whether the awaited call succeeded, a failure ends in the
\* catch block, which returns the fallback list
FetchResume(i) ==
    LET f == fetchers[i]
    IN  /\ f.pc \in {"start", "getAuthStatus", "listModels", "stop"}
        /\ \E ok \in BOOLEAN, isAuthenticated \in BOOLEAN, models \in BackendLists :
            IF ~ok \/ (f.pc = "getAuthStatus" /\ ~isAuthenticated)
            THEN /\ fetchers' = [fetchers EXCEPT ![i] =
                        [pc |-> "returned", models |-> f.models,
                         result |-> <<FallbackModels>>, failed |-> TRUE]]
                 /\ UNCHANGED cachedModels
            ELSE IF f.pc = "start"
            THEN /\ fetchers' = [fetchers EXCEPT ![i].pc = "getAuthStatus"]
                 /\ UNCHANGED cachedModels
            ELSE IF f.pc = "getAuthStatus"
            THEN /\ fetchers' = [fetchers EXCEPT ![i].pc = "listModels"]
                 /\ UNCHANGED cachedModels
            ELSE IF f.pc = "listModels"
            THEN /\ fetchers' = [fetchers EXCEPT ![i].pc = "stop",
                                                 ![i].models = <<models>>]
                 /\ UNCHANGED cachedModels
            ELSE /\ cachedModels' = <<AvailableModels(f.models[1])>>
                 /\ fetchers' = [fetchers EXCEPT ![i] =
                        [pc |-> "returned", models |-> f.models,
                         result |-> cachedModels', failed |-> FALSE]]

\* `if (newModel === this.currentModel) return;`
SameModelNever(newModel) == FALSE

SameModel(newModel) == newModel = currentModel

\* switchModel(newModel); destroyOk / createOk are the backend's answers
SwitchModel(newModel, destroyOk, createOk) ==
    IF SameModel(newModel)
    THEN /\ thrown' = <<>>
         /\ UNCHANGED <<client, session, destroyed, createCalls, destroyCalls, currentModel,
                        generatedContent, quotaInfo, handlers, stalePending,
                        promptsSent, spc, req, ret, evCount>>
    ELSE /\ IF session # 0
            THEN /\ destroyCalls' = destroyCalls + 1
                 /\ destroyed' = IF destroyOk THEN destroyed \cup {session} ELSE destroyed
            ELSE UNCHANGED <<destroyCalls, destroyed>>
         /\ currentModel' = newModel
         /\ IF ~client
            THEN /\ thrown' = <<"Service not initialized. Call initialize() first.">>
                 /\ UNCHANGED <<session, createCalls, handlers, stalePending>>
            ELSE /\ createCalls' = createCalls + 1
                 /\ IF createOk
                    THEN /\ session' = createCalls + 1
                         /\ handlers' = 0
                         /\ stalePending' = 0
                         /\ thrown' = <<>>
                    ELSE /\ thrown' = <<"createSession failed">>
                         /\ UNCHANGED <<session, handlers, stalePending>>
         /\ UNCHANGED <<client, generatedContent, quotaInfo, promptsSent, spc, req, ret,
                        evCount>>

Rethrown(error) == error

\* `catch { }`: the error ends in the empty catch block
Swallowed(error) == <<>>

\* cleanup(): destroy the session, then stop the client, with forceStop()
\* when stop() fails; destroyOk, stopOk and forceStopOk are the backend's
\* answers.  lastCall is history: what cleanup() tried and how it went.
Cleanup ==
    \E destroyOk \in BOOLEAN, stopOk \in BOOLEAN, forceStopOk \in BOOLEAN :
        LET destroyFailed == session # 0 /\ ~destroyOk
            afterDestroy == IF destroyFailed THEN Swallowed(<<"destroy failed">>) ELSE <<>>
            stopTried == afterDestroy = <<>> /\ client
            forceStopTried == stopTried /\ ~stopOk
            forceStopFailed == forceStopTried /\ ~forceStopOk
            afterStop == IF forceStopFailed THEN Swallowed(<<"forceStop failed">>) ELSE <<>>
        IN  /\ IF session # 0
               THEN /\ destroyCalls' = destroyCalls + 1
                    /\ destroyed' = IF destroyOk THEN destroyed \cup {session}
                                    ELSE destroyed
               ELSE UNCHANGED <<destroyCalls, destroyed>>
            /\ thrown' = IF afterDestroy # <<>> THEN afterDestroy ELSE afterStop
            /\ calls' = calls + 1
            /\ lastCall' = [op |-> "cleanup", destroyFailed |-> destroyFailed,
                            stopTried |-> stopTried,
                            forceStopTried |-> forceStopTried,
                            forceStopFailed |-> forceStopFailed]
            /\ spc' = "closed"
            /\ UNCHANGED <<client, session, createCalls, currentModel, generatedContent,
                           quotaInfo, handlers, stalePending, promptsSent, req, ret,
                           evCount>>

\* `await state.service?.cleanup(); process.exit(0);`: the exit is reached
\* when cleanup() returns; an error it threw would leave run()
ExitAfterCleanup ==
    /\ Cleanup
    /\ IF thrown' = <<>>
       THEN exitCode' = <<0>> /\ opc' = "exited"
       ELSE /\ opc' = "escaped"
            /\ \E fatal \in BOOLEAN : exitCode' = IF fatal THEN <<1>> ELSE exitCode

-----------------------------------------------------------------------------
(* Response extractors and export helpers: src/src/index.ts.               *)

IsDigit(c) == c \in {"0", "1", "2", "3", "4", "5", "6", "7", "8", "9"}

EndsWith(s, p) == Len(s) >= Len(p) /\ SubSeq(s, Len(s) - Len(p) + 1, Len(s)) = p

\* String.prototype.includes
Includes(s, p) == \E i \in 1..(Len(s) - Len(p) + 1) : SubSeq(s, i, i + Len(p) - 1) = p

\* String.prototype.split(sep) for a separator of one character
RECURSIVE Split(_, _)
Split(s, sep) ==
    IF \E i \in 1..Len(s) : Ch(s, i) = sep
    THEN LET i == CHOOSE i \in 1..Len(s) :
                      Ch(s, i) = sep /\ \A j \in 1..(i - 1) : Ch(s, j) # sep
         IN  <<SubSeq(s, 1, i - 1)>> \o Split(SubSeq(s, i + 1, Len(s)), sep)
    ELSE <<s>>

\* Array.prototype.join(sep)
RECURSIVE Join(_, _)
Join(parts, sep) ==
    IF parts = <<>> THEN ""
    ELSE IF Len(parts) = 1 THEN parts[1]
    ELSE parts[1] \o sep \o Join(Tail(parts), sep)

\* the first position from i on that holds no white space (Len(s) + 1 if none)
RECURSIVE SkipSpaces(_, _)
SkipSpaces(s, i) ==
    IF i <= Len(s) /\ IsSpace(Ch(s, i)) THEN SkipSpaces(s, i + 1) ELSE i

\* the last position of the longest run from i of characters outside `stop`
RECURSIVE RunEnd(_, _, _)
RunEnd(s, i, stop) ==
    IF i + 1 <= Len(s) /\ Ch(s, i + 1) \notin stop THEN RunEnd(s, i + 1, stop) ELSE i

\* Where a group `([^...]+)` starts when it follows `\s*` and `marks` optional
\* marker characters `m?`, the white space starting at position a (0: the
\* group cannot start).  The greedy `\s*` first takes all the white space
\* and the markers that follow; when the group cannot start there the regex
\* backtracks into the white space and starts the group on the last white
\* space character that is not excluded from the group.
GroupStart(s, a, m, marks, stop) ==
    LET b == SkipSpaces(s, a)
        k1 == IF marks >= 1 /\ b <= Len(s) /\ Ch(s, b) = m THEN 1 ELSE 0
        k2 == IF marks >= 2 /\ k1 = 1 /\ b + 1 <= Len(s) /\ Ch(s, b + 1) = m THEN 1 ELSE 0
        c == b + k1 + k2
        spaces == {t \in a..(b - 1) : Ch(s, t) \notin stop}
    IN  IF c <= Len(s) /\ Ch(s, c) \notin stop THEN c
        ELSE IF spaces # {} THEN CHOOSE t \in spaces : \A u \in spaces : u <= t
        ELSE 0

\* the positions where `^` matches under the m flag
LineStarts(s) == {1} \cup {i + 1 : i \in {j \in 1..Len(s) : Ch(s, j) \in {"\n", "\r"}}}

\* where group 1 of /^\s*1\.\s*\*?\*?([^*\n]+)\*?\*?\s*\(?/m starts when the
\* match starts at position p (0: no match at p)
FirstOptionAt(s, p) ==
    LET q == SkipSpaces(s, p)
    IN  IF q + 1 <= Len(s) /\ Ch(s, q) = "1" /\ Ch(s, q + 1) = "."
        THEN GroupStart(s, q + 2, "*", 2, {"*", "\n"})
        ELSE 0

\* does u match \s*\(\d+\s*chars?\)\s*$ from its first character on
IsCharCount(u) ==
    LET v == Trim(u)
        inner == SubSeq(v, 2, Len(v) - 1)
    IN  /\ Len(v) >= 2 /\ Ch(v, 1) = "(" /\ Ch(v, Len(v)) = ")"
        /\ \E w \in {"char", "chars"} :
            /\ EndsWith(ToLowerCase(inner), w)
            /\ LET num == TrimEnd(SubSeq(inner, 1, Len(inner) - Len(w)))
               IN  /\ num # ""
                   /\ \A i \in 1..Len(num) : IsDigit(Ch(num, i))

\* .replace(/\s*\(\d+\s*chars?\)\s*$/i, "")
StripCharCount(t) ==
    LET starts == {i \in 1..Len(t) : IsCharCount(SubSeq(t, i, Len(t)))}
    IN  IF starts = {} THEN t
        ELSE SubSeq(t, 1, (CHOOSE i \in starts : \A j \in starts : i <= j) - 1)

\* extractFirstOption(content): <<>> is undefined.  Group 1 holds no "*",
\* so .replace(/\*\*/g, "") leaves it as it is.
extractFirstOption(content) ==
    LET starts == {p \in LineStarts(content) : FirstOptionAt(content, p) # 0}
    IN  IF starts = {} THEN <<>>
        ELSE LET p == CHOOSE p \in starts : \A o \in starts : p <= o
                 g == FirstOptionAt(content, p)
                 group == SubSeq(content, g, RunEnd(content, g, {"*", "\n"}))
             IN  <<Trim(StripCharCount(group))>>

\* line.match(/^\s*\(Character count:/i)
IsCountLine(line) == StartsWith(ToLowerCase(TrimStart(line)), "(character count:")

\* the loop of extractDescription over lines[i..]
RECURSIVE BodyLines(_, _, _)
BodyLines(lines, i, inBody) ==
    IF i > Len(lines) THEN <<>>
    ELSE IF StartsWith(lines[i], "#") THEN BodyLines(lines, i + 1, TRUE)
    ELSE IF IsCountLine(lines[i]) THEN BodyLines(lines, i + 1, inBody)
    ELSE IF inBody THEN <<lines[i]>> \o BodyLines(lines, i + 1, inBody)
    ELSE BodyLines(lines, i + 1, inBody)

\* extractDescription(content): <<>> is undefined
extractDescription(content) ==
    LET body == Trim(Join(BodyLines(Split(content, "\n"), 1, FALSE), "\n"))
    IN  IF Len(body) > 10 THEN <<body>> ELSE <<>>

\* .split(",").map(k => k.trim()).filter(k => k.length > 0)
KeywordList(text) ==
    SelectSeq([i \in 1..Len(Split(text, ",")) |-> Trim(Split(text, ",")[i])],
              LAMBDA k : Len(k) > 0)

\* A TLA+ string cannot hold the backquote character (U+0060): the texts of
\* the model write it as an apostrophe.
Backquote == "'"

\* where /`([^`]+)`/ matches: a backquote, one character or more, a backquote
BacktickAt(s, i) ==
    /\ Ch(s, i) = Backquote
    /\ i + 1 <= Len(s) /\ Ch(s, i + 1) # Backquote
    /\ RunEnd(s, i + 1, {Backquote}) < Len(s)

FinalKeywordLabel == "final keyword string"

\* where group 1 of /Final Keyword String[^:]*:\s*\n?\s*`?([^`\n]+)`?/i
\* starts when the match starts at position f (0: no match at f)
FinalKeywordAt(s, f) ==
    LET n == Len(FinalKeywordLabel)
        colons == {i \in (f + n)..Len(s) : Ch(s, i) = ":"}
    IN  IF f + n - 1 <= Len(s) /\ ToLowerCase(SubSeq(s, f, f + n - 1)) = FinalKeywordLabel
           /\ colons # {}
        THEN GroupStart(s, (CHOOSE i \in colons : \A j \in colons : i <= j) + 1,
                        Backquote, 1, {Backquote, "\n"})
        ELSE 0

\* parseKeywordsFromContent(content)
parseKeywordsFromContent(content) ==
    LET quoted == {i \in 1..Len(content) : BacktickAt(content, i)}
        finals == {f \in 1..Len(content) : FinalKeywordAt(content, f) # 0}
    IN  IF quoted # {}
        THEN LET i == CHOOSE i \in quoted : \A j \in quoted : i <= j
             IN  KeywordList(SubSeq(content, i + 1, RunEnd(content, i + 1, {Backquote})))
        ELSE IF finals # {}
        THEN LET f == CHOOSE f \in finals : \A j \in finals : f <= j
                 g == FinalKeywordAt(content, f)
             IN  KeywordList(SubSeq(content, g, RunEnd(content, g, {Backquote, "\n"})))
        ELSE <<>>

-----------------------------------------------------------------------------
(* The orchestrator: src/src/index.ts, with the image commands of its      *)
(* later revision src/unnamed/part_000.                                    *)

DOUBLE_CTRL_C_WINDOW_MS == 1000

MetadataFields == {"title", "subtitle", "description", "keywords", "releaseNotes",
                   "promoText", "iconPath", "featureGraphicPath"}

\* the fields buildStoreConfig copies into the "en-US" info block
ConfigFields == {"title", "subtitle", "description", "keywords", "releaseNotes",
                 "promoText"}

storeMetadataAfresh(contentType, content) ==
    [f \in MetadataFields |->
        IF contentType = f /\ f \in {"title", "subtitle", "promoText"}
        THEN extractFirstOption(content)
        ELSE IF contentType = f /\ f \in {"description", "releaseNotes"}
        THEN extractDescription(content)
        ELSE IF contentType = f /\ f = "keywords"
        THEN <<parseKeywordsFromContent(content)>>
        ELSE IF contentType = "full" /\ f = "title" THEN extractFirstOption(content)
        ELSE IF contentType = "full" /\ f = "description" THEN extractDescription(content)
        ELSE IF contentType = "full" /\ f = "keywords"
        THEN <<parseKeywordsFromContent(content)>>
        ELSE <<>>]

\* state.generatedMetadata after storeMetadata(contentType, content)
storeMetadata(contentType, content) ==
    IF contentType \in {"title", "subtitle", "promoText"}
    THEN [generatedMetadata EXCEPT ![contentType] = extractFirstOption(content)]
    ELSE IF contentType \in {"description", "releaseNotes"}
    THEN [generatedMetadata EXCEPT ![contentType] = extractDescription(content)]
    ELSE IF contentType = "keywords"
    THEN [generatedMetadata EXCEPT !["keywords"] = <<parseKeywordsFromContent(content)>>]
    ELSE IF contentType = "full"
    THEN [generatedMetadata EXCEPT !["title"] = extractFirstOption(content),
                                   !["description"] = extractDescription(content),
                                   !["keywords"] = <<parseKeywordsFromContent(content)>>]
    ELSE generatedMetadata

\* buildStoreConfig(metadata): the "en-US" info block
buildStoreConfig(metadata) == [f \in ConfigFields |-> metadata[f]]

JsonStringifyNulls(object) ==
    [f \in DOMAIN object |-> IF object[f] = <<>> THEN [null |-> TRUE] ELSE object[f][1]]

\* JSON.stringify(object): a property whose value is undefined is left out
JsonStringify(object) ==
    [f \in {g \in DOMAIN object : object[g] # <<>>} |-> object[f][1]]

\* exportStoreConfig(metadata, appName): the "en-US" info block of the file
\* it writes (configVersion and the nesting are the same in every file)
exportStoreConfig(metadata) == JsonStringify(buildStoreConfig(metadata))

hasMetadataKeys == \E f \in MetadataFields : TRUE

\* `Object.values(state.generatedMetadata).some(v => v !== undefined)`
hasMetadata == \E f \in MetadataFields : generatedMetadata[f] # <<>>

\* the characters of s that are no digit
NonDigits(s) == {Ch(s, i) : i \in {j \in 1..Len(s) : ~IsDigit(Ch(s, j))}}

\* url.match(/\/id(\d+)/), else url.match(/^(\d{9,10})$/): <<>> is null
extractAppStoreId(url) ==
    LET ids == {i \in 1..(Len(url) - 3) :
                    SubSeq(url, i, i + 2) = "/id" /\ IsDigit(Ch(url, i + 3))}
    IN  IF ids # {}
        THEN LET i == CHOOSE i \in ids : \A j \in ids : i <= j
             IN  <<SubSeq(url, i + 3, RunEnd(url, i + 3, NonDigits(url)))>>
        ELSE IF Len(url) \in {9, 10} /\ \A i \in 1..Len(url) : IsDigit(Ch(url, i))
        THEN <<url>>
        ELSE <<>>

isAppStoreUrl(url) ==
    \/ Includes(url, "apps.apple.com")
    \/ Includes(url, "itunes.apple.com")
    \/ Len(url) \in {9, 10} /\ \A i \in 1..Len(url) : IsDigit(Ch(url, i))

svcCore == <<client, session, destroyed, createCalls, destroyCalls, currentModel,
             generatedContent, quotaInfo, handlers, stalePending, promptsSent,
             spc, req, ret, thrown, evCount>>

ShouldExitAtEdge(now) == now - lastCtrlCTime <= DOUBLE_CTRL_C_WINDOW_MS

\* the value shouldExitOnCtrlC() returns when Date.now() gives `now`
shouldExitOnCtrlC(now) == now - lastCtrlCTime < DOUBLE_CTRL_C_WINDOW_MS

\* handleCtrlC(), called for an ExitPromptError a prompt of the loop threw,
\* when Date.now() gives `now`.  interrupts is history: the times of the
\* interrupts handled.
handleCtrlC(now) ==
    /\ interrupts' = Append(interrupts, now)
    /\ failure' = <<>> /\ errorLine' = <<>>
    /\ IF shouldExitOnCtrlC(now)
       THEN /\ ExitAfterCleanup
            /\ UNCHANGED lastCtrlCTime
       ELSE /\ lastCtrlCTime' = now
            /\ opc' = "prompt"
            /\ UNCHANGED <<svcCore, exitCode, calls, lastCall>>

\* the type the dispatching switch reads from a command
CommandType(command) ==
    IF "type" \in DOMAIN command THEN command.type ELSE "undefined"

\* a failure raised in a handler: `shown` when it was printed as an error line
Raised(handler, message, shown) ==
    <<[handler |-> handler, message |-> message, shown |-> shown]>>

AfterCallKindOnFailure(op, kind, result) ==
    /\ opc' = "prompt"
    /\ IF ~result.success
       THEN /\ errorLine' = result.error
            /\ failure' = Raised(op, result.error[1], TRUE)
            /\ lastContentType' = <<kind>>
            /\ UNCHANGED <<lastContent, generatedMetadata>>
       ELSE /\ failure' = <<>> /\ errorLine' = <<>>
            /\ IF op = "generate"
               THEN /\ lastContent' = result.content
                    /\ lastContentType' = <<kind>>
                    /\ generatedMetadata' = storeMetadata(kind, result.content)
               ELSE IF op = "refine"
               THEN /\ lastContent' = result.content
                    /\ generatedMetadata' = storeMetadata(lastContentType[1], result.content)
                    /\ UNCHANGED lastContentType
               ELSE UNCHANGED <<lastContent, lastContentType, generatedMetadata>>

\* handleContent / handleChat / handleScore after the awaited service call
\* of operation op on kind has returned result
AfterCall(op, kind, result) ==
    /\ opc' = "prompt"
    /\ IF ~result.success
       THEN /\ errorLine' = result.error
            /\ failure' = Raised(op, result.error[1], TRUE)
            /\ UNCHANGED <<lastContent, lastContentType, generatedMetadata>>
       ELSE /\ failure' = <<>> /\ errorLine' = <<>>
            /\ IF op = "generate"
               THEN /\ lastContent' = result.content
                    /\ lastContentType' = <<kind>>
                    /\ generatedMetadata' = storeMetadata(kind, result.content)
               ELSE IF op = "refine"
               THEN /\ lastContent' = result.content
                    /\ generatedMetadata' = storeMetadata(lastContentType[1], result.content)
                    /\ UNCHANGED lastContentType
               ELSE UNCHANGED <<lastContent, lastContentType, generatedMetadata>>

\* the handler that awaits the service call goes on when the call returns
Continuation ==
    IF spc # "ready" /\ spc' = "ready"
    THEN AfterCall(req'.op, req'.kind, ret'[1])
    ELSE /\ failure' = <<>> /\ errorLine' = <<>>
         /\ UNCHANGED <<opc, lastContent, lastContentType, generatedMetadata>>

\* the milliseconds that pass from one interrupt to the next
Elapsed == {DOUBLE_CTRL_C_WINDOW_MS - 1, DOUBLE_CTRL_C_WINDOW_MS,
            DOUBLE_CTRL_C_WINDOW_MS + 1}

\* Date.now() when the loop starts: later than the window after the epoch
StartTime == 2 * DOUBLE_CTRL_C_WINDOW_MS

\* the values Date.now() can give at the next interrupt
Times ==
    {(IF interrupts = <<>> THEN StartTime ELSE interrupts[Len(interrupts)]) + d :
        d \in Elapsed}

-----------------------------------------------------------------------------
(* SpecParse: parseCommand applied to one line of input.                    *)

ParseAlphabet == {"/", "q", "Q", " ", "x"}

RECURSIVE StringsUpTo(_)
StringsUpTo(n) ==
    IF n = 0 THEN {""}
    ELSE LET shorter == StringsUpTo(n - 1)
         IN  shorter \cup {s \o c : s \in shorter, c \in ParseAlphabet}

\* lines a user can type that are no variant of a table key
NotableLines == {"constructor", "Constructor", "__proto__", " /title", "/foo",
                 "make it Shorter", "/score", "/SCORE", "/icon", "tostring",
                 "\t/Q\n", "/score\tx", "/research", "/Research", "/apikey",
                 "/apikey set", "/apikey reset"}

\* s with the characters at the positions in mask put in upper case
RECURSIVE CaseVariant(_, _, _)
CaseVariant(s, mask, i) ==
    IF i > Len(s) THEN ""
    ELSE (IF i \in mask THEN UpperChar(Ch(s, i)) ELSE Ch(s, i))
         \o CaseVariant(s, mask, i + 1)

RECURSIVE Blanks(_)
Blanks(n) == IF n = 0 THEN "" ELSE " " \o Blanks(n - 1)

ParamVerbs == {"/score", "/icon", "/feature", "/graphic"}
Payloads == {"x", "Fit App", "aB"}

Pads == {0, MaxPad}
Gaps == {1, MaxPad + 1}

ServiceIdle ==
    /\ client = FALSE /\ session = 0 /\ destroyed = {} /\ createCalls = 0
    /\ destroyCalls = 0 /\ currentModel = "gpt-4o"
    /\ generatedContent = [k \in Kinds |-> <<>>]
    /\ quotaInfo = <<>> /\ handlers = 0 /\ stalePending = 0 /\ promptsSent = 0
    /\ spc = "ready" /\ req = NoRequest /\ ret = <<>> /\ thrown = <<>> /\ evCount = 0
    /\ calls = 0 /\ lastCall = [op |-> "none"] /\ exitCode = <<>>

OrchIdle ==
    /\ opc = "boot" /\ stateModel = "gpt-4o" /\ lastContent = ""
    /\ lastContentType = <<>>
    /\ generatedMetadata = [f \in MetadataFields |-> <<>>]
    /\ errorLine = <<>> /\ commands = 0
    /\ exported = <<>> /\ appStoreUrl = <<>> /\ failure = <<>> /\ dispatched = <<>>

ClockIdle ==
    /\ lastCtrlCTime = 0 /\ interrupts = <<>>

FetchIdle ==
    /\ cachedModels = <<>>
    /\ fetchers = [i \in Fetchers |-> NotCalled]

\* the line is: a case variant of a table key with blanks around it; or a
\* case variant of a parameterized verb, blanks, a payload; or a free line
InitParse ==
    /\ \/ \E k \in CommandKeys : \E mask \in SUBSET (2..Len(k)) : \E l, r \in Pads :
            /\ input = Blanks(l) \o CaseVariant(k, mask, 1) \o Blanks(r)
            /\ canonical = <<[verb |-> k, payload |-> ""]>>
       \/ \E k \in ParamVerbs : \E mask \in SUBSET (2..Len(k)) : \E l, r \in Pads :
            \E g \in Gaps : \E pl \in Payloads :
            /\ input = Blanks(l) \o CaseVariant(k, mask, 1) \o Blanks(g) \o pl \o Blanks(r)
            /\ canonical = <<[verb |-> k, payload |-> pl]>>
       \/ /\ input \in StringsUpTo(MaxLen) \cup NotableLines
          /\ canonical = <<>>
    /\ parsed = <<>>
    /\ ServiceIdle /\ OrchIdle /\ ClockIdle /\ FetchIdle

Parse ==
    /\ parsed = <<>>
    /\ parsed' = <<parseCommand(input)>>
    /\ UNCHANGED <<input, canonical, fetchVars, svcVars, orchVars, clockVars>>

NextParse == Parse

SpecParse == InitParse /\ [][NextParse]_vars

\* C9: every line whose trimmed text is not empty and does not start with
\* "/" parses to the chat command whose message is the trimmed line, casing
\* kept.
C9_NonSlashIsChat ==
    (parsed # <<>> /\ Trim(input) # "" /\ ~StartsWith(Trim(input), "/"))
        => parsed[1] = [type |-> "chat", message |-> Trim(input)]

\* the command the table or the parameterized form stands for
ExpectedCommand(c) ==
    IF c.payload = "" THEN CommandMapGet(c.verb)[1]
    ELSE IF c.verb = "/score" THEN [type |-> "score", keyword |-> c.payload]
    ELSE IF c.verb = "/icon" THEN [type |-> "icon", prompt |-> c.payload]
    ELSE [type |-> "feature", prompt |-> c.payload]

\* C10: a table key in any mix of upper and lower case, with blanks around
\* it, parses to the command of the lower-case key; a parameterized verb in
\* any case parses to its command with the payload in its original casing.
C10_CaseInsensitive ==
    (parsed # <<>> /\ canonical # <<>>) => parsed[1] = ExpectedCommand(canonical[1])

C10_Witness ==
    /\ parsed # <<>> /\ canonical # <<>>
    /\ canonical[1].verb = "/graphic" /\ canonical[1].payload = "Fit App"
    /\ input # ToLowerCase(input) /\ StartsWith(input, " /GR")
    /\ parsed[1].prompt = "Fit App"

\* the slash commands of the README command tables (/score takes a keyword)
ReadmeCommands == {"/title", "/subtitle", "/desc", "/keywords", "/release",
                   "/promo", "/icon", "/feature", "/full", "/score", "/research",
                   "/export", "/apikey", "/copy", "/last", "/model", "/url",
                   "/clear", "/help", "/quit"}

\* the slash command a typed line names: its first word in lower case
CommandWord(line) == ToLowerCase(Split(Trim(line), " ")[1])

\* C11: a line that names a slash command of the README tables (for /score:
\* followed by a keyword) parses to a command of a type of its own, never
\* to a chat message that the loop would send to the backend as refinement
\* feedback.
C11_ReadmeCommandsAreNotChat ==
    (/\ parsed # <<>>
     /\ CommandWord(input) \in ReadmeCommands
     /\ CommandWord(input) = "/score" => Len(Split(Trim(input), " ")) > 1)
    => CommandType(parsed[1]) \notin {"chat", "undefined"}

-----------------------------------------------------------------------------
(* SpecExport: exportStoreConfig applied to one accumulator.               *)

\* the values a text field and the keywords field of the accumulator take
MetaTexts == {<<>>, <<"">>, <<"Fit">>}
MetaKeywords == {<<>>, << <<>> >>, << <<"fit", "run">> >>}

Accumulators ==
    {[f \in MetadataFields |-> IF f = "keywords" THEN k ELSE m[f]] :
        m \in [MetadataFields \ {"keywords"} -> MetaTexts], k \in MetaKeywords}

InitExport ==
    /\ input \in Accumulators
    /\ parsed = <<>> /\ canonical = <<>>
    /\ ServiceIdle /\ OrchIdle /\ ClockIdle /\ FetchIdle

Export ==
    /\ parsed = <<>>
    /\ parsed' = <<exportStoreConfig(input)>>
    /\ UNCHANGED <<input, canonical, fetchVars, svcVars, orchVars, clockVars>>

NextExport == Export

SpecExport == InitExport /\ [][NextExport]_vars

\* C12: the en-US block of the exported file has as keys exactly those of
\* title, subtitle, description, keywords, releaseNotes and promoText that
\* hold a value in the accumulator, each with that value; a field without
\* a value is no key of the file, and iconPath and featureGraphicPath are
\* never keys of it.
C12_ExportHasExactlyPopulatedFields ==
    parsed # <<>> =>
        /\ DOMAIN parsed[1] = {f \in ConfigFields : input[f] # <<>>}
        /\ \A f \in DOMAIN parsed[1] : parsed[1][f] = input[f][1]
        /\ "iconPath" \notin DOMAIN parsed[1]
        /\ "featureGraphicPath" \notin DOMAIN parsed[1]

C12_Witness ==
    /\ parsed # <<>>
    /\ {f \in MetadataFields : input[f] # <<>>} = {"title", "keywords", "iconPath"}
    /\ DOMAIN parsed[1] = {"title", "keywords"}
    /\ parsed[1]["title"] = "Fit" /\ parsed[1]["keywords"] = <<"fit", "run">>

-----------------------------------------------------------------------------
(* SpecExtract: extractDescription applied to one text.                    *)

\* the lines a generated text is made of: headings, a character-count
\* annotation, bodies of 5 and of 50 characters, an indented line, a blank
\* line
DescriptionLines ==
    {"# Title", "## Body", "(Character count: 50)", "short",
     "A fitness app that plans every run and every ride.", " #1 in health", ""}

\* the texts of 1..n lines
RECURSIVE TextsOfLines(_)
TextsOfLines(n) ==
    IF n = 1 THEN DescriptionLines
    ELSE LET shorter == TextsOfLines(n - 1)
         IN  shorter \cup {t \o "\n" \o l : t \in shorter, l \in DescriptionLines}

InitExtract ==
    /\ input \in TextsOfLines(MaxLines)
    /\ parsed = <<>> /\ canonical = <<>>
    /\ ServiceIdle /\ OrchIdle /\ ClockIdle /\ FetchIdle

Extract ==
    /\ parsed = <<>>
    /\ parsed' = <<extractDescription(input)>>
    /\ UNCHANGED <<input, canonical, fetchVars, svcVars, orchVars, clockVars>>

NextExtract == Extract

SpecExtract == InitExtract /\ [][NextExtract]_vars

\* the trimmed join of all the lines of text that are neither heading lines
\* nor character-count lines; absent when it has 10 characters or fewer
DescriptionBody(text) ==
    LET lines == Split(text, "\n")
        kept == SelectSeq(lines, LAMBDA l : ~StartsWith(l, "#") /\ ~IsCountLine(l))
        body == Trim(Join(kept, "\n"))
    IN  IF Len(body) > 10 THEN <<body>> ELSE <<>>

\* C17: for every text, extractDescription returns the trimmed join of all
\* its lines that are neither heading lines (starting with "#") nor
\* character-count lines, and returns absent exactly when that body has 10
\* characters or fewer.
C17_DescriptionIsBodyWithoutHeadings ==
    parsed # <<>> => parsed[1] = DescriptionBody(input)

-----------------------------------------------------------------------------
(* SpecService: a caller that uses one CopilotService as index.ts does:    *)
(* initialize() first, then one call at a time, each awaited.              *)

\* the arguments the caller draws from
CallKinds == {"title", "keywords"}
SwitchTargets == {"gpt-4o", "gpt-4.1"}

CallReady == Running /\ spc = "ready" /\ session # 0 /\ calls < MaxCalls

Called(c) == calls' = calls + 1 /\ lastCall' = c

Rest == UNCHANGED <<parseVars, fetchVars, orchVars, clockVars>>

SvcInitialize ==
    /\ \E ok \in BOOLEAN : Initialize(ok)
    /\ UNCHANGED <<calls, lastCall, exitCode>> /\ Rest

SvcGenerate ==
    /\ CallReady
    /\ \E kind \in CallKinds, regenerate \in BOOLEAN :
        /\ Generate(kind, regenerate)
        /\ Called([op |-> "generate", kind |-> kind, regenerate |-> regenerate])
    /\ UNCHANGED exitCode /\ Rest

SvcRefine ==
    /\ CallReady
    /\ \E kind \in CallKinds :
        /\ RefineContent(kind)
        /\ Called([op |-> "refine", kind |-> kind])
    /\ UNCHANGED exitCode /\ Rest

SvcScore ==
    /\ CallReady
    /\ ScoreKeyword
    /\ Called([op |-> "score"])
    /\ UNCHANGED exitCode /\ Rest

SvcSwitchModel ==
    /\ CallReady
    /\ \E m \in SwitchTargets, destroyOk \in BOOLEAN, createOk \in BOOLEAN :
        /\ SwitchModel(m, destroyOk, createOk)
        /\ Called([op |-> "switchModel", model |-> m])
    /\ UNCHANGED exitCode /\ Rest

SvcCleanup ==
    /\ Running /\ spc = "ready" /\ session # 0
    /\ Cleanup
    /\ UNCHANGED exitCode /\ Rest

SvcDeliver ==
    /\ \E e \in SessionEvents, fatal \in BOOLEAN : DeliverEvent(e, fatal)
    /\ UNCHANGED <<calls, lastCall>> /\ Rest

SvcSendReturns ==
    /\ SendReturns
    /\ UNCHANGED <<calls, lastCall>> /\ Rest

SvcSendThrows ==
    /\ SendThrows
    /\ UNCHANGED <<calls, lastCall>> /\ Rest

InitService ==
    /\ input = "" /\ parsed = <<>> /\ canonical = <<>>
    /\ ServiceIdle /\ OrchIdle /\ ClockIdle /\ FetchIdle

NextService ==
    \/ SvcInitialize \/ SvcGenerate \/ SvcRefine \/ SvcScore \/ SvcSwitchModel
    \/ SvcCleanup \/ SvcDeliver \/ SvcSendReturns \/ SvcSendThrows

SpecService == InitService /\ [][NextService]_vars

\* C1: when generate(X) has just returned a text and generate(X) is called
\* again without regenerate, the second call sends no prompt, subscribes no
\* handler, returns at once and returns the very same result.
C1_SecondGenerateIsCacheHit ==
    [][(/\ calls' = calls + 1
        /\ spc = "ready" /\ lastCall.op = "generate"
        /\ ret # <<>> /\ ret[1].success
        /\ lastCall'.op = "generate" /\ lastCall'.kind = lastCall.kind
        /\ ~lastCall'.regenerate)
       => (/\ promptsSent' = promptsSent /\ handlers' = handlers
           /\ spc' = "ready" /\ ret' = ret)]_vars

RECURSIVE ConcatAll(_)
ConcatAll(texts) ==
    IF texts = <<>> THEN "" ELSE Head(texts) \o ConcatAll(Tail(texts))

\* C2: the text a request has accumulated is, at every moment and so when
\* the idle event arrives, the concatenation in arrival order of the delta
\* texts delivered to it; tool and usage events leave it alone.
C2_OutputIsConcatenation ==
    req.op # "none" => req.output = ConcatAll(req.deltas)

C2_Witness ==
    /\ req.done = "resolved" /\ req.terminal # <<>>
    /\ req.deltas = <<"A", " ">> /\ req.toolsCompleted = 1
    /\ req.output = "A "

\* C3: when a generate request whose send() returned is ended by an error
\* event that carries a message, generate returns the failure result with
\* exactly that message and no content, and the cache entry of the kind is
\* what it was when streaming started.
C3_ErrorEventFails ==
    (/\ req.op = "generate" /\ ~req.sendFailed
     /\ req.terminal # <<>> /\ req.terminal[1].type = "session.error"
     /\ req.terminal[1].message # <<>>)
    => /\ generatedContent[req.kind] = req.before
       /\ spc = "ready" =>
            ret = <<[content |-> "", success |-> FALSE,
                     error |-> req.terminal[1].message]>>

C3_Witness ==
    /\ spc = "ready" /\ req.op = "generate" /\ ~req.sendFailed
    /\ req.deltas = <<"A">> /\ req.terminal # <<>>
    /\ req.terminal[1] = [type |-> "session.error", message |-> <<"boom">>]
    /\ ret # <<>> /\ ~ret[1].success
    /\ generatedContent[req.kind] = <<>>

\* C4: switchModel(m) with m the current model makes no destroy and no
\* create call and leaves session, model, cache and quota as they were.
C4_SwitchToCurrentIsNoOp ==
    [][(/\ calls' = calls + 1
        /\ lastCall'.op = "switchModel" /\ lastCall'.model = currentModel)
       => (/\ destroyCalls' = destroyCalls /\ createCalls' = createCalls
           /\ UNCHANGED <<session, destroyed, currentModel, generatedContent,
                          quotaInfo>>)]_vars

C4_Witness ==
    /\ lastCall.op = "switchModel" /\ lastCall.model = currentModel
    /\ createCalls = 1 /\ destroyCalls = 0 /\ thrown = <<>>
    /\ generatedContent["title"] # <<>> /\ quotaInfo # <<>>

\* C5: after a switchModel that failed, the manager does not hold a
\* destroyed session as its active session.
C5_NoDestroyedSessionAfterFailedSwitch ==
    (lastCall.op = "switchModel" /\ thrown # <<>>) => session \notin destroyed

\* C20: the pending operation of a request is settled by the first terminal
\* event delivered to it and stays so: a first idle event resolves it, a
\* first error event rejects it with the message of that event, whatever
\* terminal events follow; and once the call has returned (send() did not
\* throw) it returned success with the accumulated text in the first case
\* and the failure with that message in the second.
C20_SettledOnceByFirstTerminal ==
    (req.op # "none" /\ req.terminal # <<>>) =>
        LET first == req.terminal[1]
            errorMessage == IF first.message # <<>> THEN first.message[1]
                            ELSE "Session error occurred"
        IN  IF first.type = "session.idle"
            THEN /\ req.done = "resolved"
                 /\ (spc = "ready" /\ ~req.sendFailed) =>
                        ret = <<Success(cleanOutput(req.output))>>
            ELSE /\ req.done = "rejected" /\ req.message = errorMessage
                 /\ (spc = "ready" /\ ~req.sendFailed) =>
                        ret = <<Failure(errorMessage)>>

C20_Witness ==
    /\ spc = "ready" /\ req.op = "generate" /\ ~req.sendFailed
    /\ req.terminal # <<>> /\ req.terminal[1].type = "session.idle"
    /\ req.after = <<"session.error">>
    /\ req.deltas = <<"A">>
    /\ ret = <<Success("A")>>

\* C21: the step that sends the prompt of a generate, refineContent or
\* scoreKeyword call has subscribed the handler of the request, so from the
\* moment the prompt is out a handler is attached; and every session event
\* delivered while the request is in flight, an early delta before send()
\* has returned included, is read by the handler of the request.
C21_HandlerBeforePrompt ==
    [][/\ promptsSent' = promptsSent + 1
           => (handlers' = handlers + 1 /\ spc' = "sending")
       /\ (evCount' = evCount + 1 /\ spc \in {"sending", "awaiting"})
           => (/\ handlers >= 1
               /\ \E e \in SessionEvents : req' = HandleEvent(req, e))]_vars

C21_Witness ==
    /\ spc = "sending" /\ handlers = 1 /\ promptsSent = 1
    /\ req.deltas = <<"A">> /\ req.output = "A"

\* C26: at most one handler is subscribed to the session, and once the
\* request has had its terminal event and its call has returned, no handler
\* of it is subscribed any more.
C26_AtMostOneHandler ==
    /\ handlers <= 1
    /\ (spc = "ready" /\ req.terminal # <<>>) => handlers = 0

\* C28: the delivery of a session event never ends the process, whether the
\* event arrives before send() has returned, while `done` is awaited, or
\* after send() has failed: a session.error always finds a consumer; and a
\* call that its error event ends returns the failure with the message of
\* the event.
C28_ErrorAlwaysConsumed ==
    [][evCount' = evCount + 1
       => /\ exitCode' = exitCode
          /\ (spc # "ready" /\ spc' = "ready" /\ req'.done = "rejected")
                => ret' = <<Failure(req'.message)>>]_vars

\* C19: a switchModel call that fails leaves the current model as it was:
\* the model is changed only once the new session exists, so that the same
\* switch can be tried again and is no same-model no-op.
C19_ModelChangesOnlyWithSession ==
    [][(/\ calls' = calls + 1 /\ lastCall'.op = "switchModel"
        /\ thrown' # <<>>)
       => (currentModel' = currentModel /\ lastCall'.model # currentModel')]_vars

-----------------------------------------------------------------------------
(* SpecCached: the service from the state it is in when initialize() and a *)
(* first generate("title") have succeeded under the start model; calls are *)
(* counted from there.                                                     *)

\* the request of that generate("title"): one delta, then session.idle
FirstRequest ==
    HandleEvent(
        HandleEvent([op |-> "generate", kind |-> "title", output |-> "",
                     toolsCompleted |-> 0, done |-> "pending", message |-> "",
                     sendFailed |-> FALSE, deltas |-> <<>>, terminal |-> <<>>,
                     after |-> <<>>, before |-> <<>>],
                    [type |-> "assistant.message_delta", deltaContent |-> "A"]),
        [type |-> "session.idle"])

\* the service when that call has returned
FirstGenerateDone ==
    /\ client = TRUE /\ session = 1 /\ destroyed = {} /\ createCalls = 1
    /\ destroyCalls = 0 /\ currentModel = "gpt-4o"
    /\ generatedContent = [k \in Kinds |-> IF k = "title" THEN <<"A">> ELSE <<>>]
    /\ quotaInfo = <<>> /\ handlers = 1 /\ stalePending = 0 /\ promptsSent = 1
    /\ spc = "ready" /\ req = FirstRequest /\ ret = <<Success("A")>>
    /\ thrown = <<>> /\ evCount = 2 /\ exitCode = <<>>

InitCached ==
    /\ input = "" /\ parsed = <<>> /\ canonical = <<>>
    /\ OrchIdle /\ ClockIdle /\ FetchIdle
    /\ FirstGenerateDone
    /\ calls = 0 /\ lastCall = [op |-> "none"]

NextCached ==
    \/ SvcGenerate \/ SvcRefine \/ SvcScore \/ SvcSwitchModel
    \/ SvcCleanup \/ SvcDeliver \/ SvcSendReturns \/ SvcSendThrows

SpecCached == InitCached /\ [][NextCached]_vars

-----------------------------------------------------------------------------
(* SpecLate: the service on one session, with a backend whose events are   *)
(* marked with the prompt they answer.  The field `prompt` of an event is  *)
(* history: the SessionEvent of the code carries no such mark and the      *)
(* handler reads none.  The backend may emit events for an earlier prompt  *)
(* after that prompt's terminal event.                                     *)

\* the events the backend emits in response to the p-th prompt
EventsFor(p) ==
    {[type |-> "assistant.message_delta", deltaContent |-> Ch(UpperAlpha, p),
      prompt |-> p],
     [type |-> "session.idle", prompt |-> p],
     [type |-> "session.error", message |-> <<"boom">>, prompt |-> p]}

\* the backend emits an event for the prompt in flight, or for an earlier
\* prompt whose request has had its terminal event: `ret`, which holds the
\* result of the previous call while the next request is in flight, then
\* is a success (session.idle) or the failure of a session.error
SvcDeliverFor ==
    /\ \E p \in 1..promptsSent : \E e \in EventsFor(p), fatal \in BOOLEAN :
            /\ (p < promptsSent /\ spc # "ready")
                => (ret # <<>> /\ ret[1].error # <<SendErrorMessage>>)
            /\ DeliverEvent(e, fatal)
    /\ UNCHANGED <<calls, lastCall>> /\ Rest

NextLate ==
    \/ SvcInitialize \/ SvcGenerate \/ SvcRefine \/ SvcScore
    \/ SvcDeliverFor \/ SvcSendReturns \/ SvcSendThrows

SpecLate == InitService /\ [][NextLate]_vars

\* C27: the handler of a request reads only events emitted in response to
\* the prompt of that request: the terminal event that settles it answers
\* its own prompt, and every delta text added to its output does.
C27_OnlyOwnEvents ==
    req.op # "none" =>
        /\ req.terminal # <<>> => req.terminal[1].prompt = promptsSent
        /\ \A i \in 1..Len(req.deltas) : req.deltas[i] = Ch(UpperAlpha, promptsSent)

-----------------------------------------------------------------------------
(* SpecFetch: the callers of fetchAvailableModels(), each call running     *)
(* from one await to the next, the calls of different callers interleaved. *)

InitFetch ==
    /\ input = "" /\ parsed = <<>> /\ canonical = <<>>
    /\ ServiceIdle /\ OrchIdle /\ ClockIdle /\ FetchIdle

NextFetch ==
    /\ \E i \in Fetchers : FetchCall(i) \/ FetchResume(i)
    /\ UNCHANGED <<parseVars, svcVars, orchVars, clockVars>>

SpecFetch == InitFetch /\ [][NextFetch]_vars

\* C23: the model cache is written at most once: once it holds a list no
\* step changes it, a second overlapping call included; and a call that
\* fails leaves the cache as it was and returns the fallback list.
C23_ModelCacheWrittenOnce ==
    [][/\ cachedModels # <<>> => cachedModels' = cachedModels
       /\ \A i \in Fetchers :
            (fetchers'[i] # fetchers[i] /\ fetchers'[i].failed)
                => (/\ cachedModels' = cachedModels
                    /\ fetchers'[i].result = <<FallbackModels>>)]_vars

-----------------------------------------------------------------------------
(* Spec: run() of index.ts from its start-up prompts on; the backend       *)
(* delivers session events, the user types lines and presses Ctrl-C at     *)
(* prompts.                                                                *)

\* what the user types at the command prompt
LoopLines == {"/title", "/full", "shorter", "/score fit", "/model", "/export",
              "/url", "/icon", "/feature x", "/last", "/copy", "/help", "/clear",
              "/quit", "", "constructor"}

\* the commands parseCommand makes of these lines
LoopCommands == {parseCommand(line) : line \in LoopLines}

\* the commands of type t among them
Typed(t) == {c \in LoopCommands : CommandType(c) = t}

\* the delta texts of the backend
LoopDeltas == {"1. Fit", "# H\nLong body text"}

LoopEvents ==
    {[type |-> "assistant.message_delta", deltaContent |-> d] : d \in LoopDeltas}
    \cup {[type |-> "session.idle"]}
    \cup {[type |-> "session.error", message |-> <<m>>] : m \in ErrorMessages}

\* what the user types at the App Store URL prompt
UrlInputs == {"", "x", "123456789", "apps.apple.com/app"}

PromptUnawaited == Running /\ opc \in {"prompt", "call"}

\* the loop is at `await promptCommand()`: every handler of the switch is
\* awaited, so the call of the previous command has returned
AtPrompt == Running /\ opc = "prompt" /\ spc = "ready"

\* promptCommand() returns a line that parses to command c, and the switch
\* dispatches on its type
Reads(c) ==
    /\ AtPrompt /\ commands < MaxCommands
    /\ c \in LoopCommands
    /\ commands' = commands + 1
    /\ dispatched' = <<c>>

\* a prompt of the loop throws ExitPromptError and handleCtrlC() runs
Interrupted ==
    /\ Len(interrupts) < MaxInterrupts
    /\ \E now \in Times : handleCtrlC(now)

NoCall == UNCHANGED <<calls, lastCall>>

Quiet == failure' = <<>> /\ errorLine' = <<>>

\* `await checkAuth()`: a client that fails to start or to answer counts as
\* not authenticated
Authenticate ==
    /\ Running /\ opc = "boot"
    /\ \E isAuthenticated \in BOOLEAN :
        opc' = IF isAuthenticated THEN "setup" ELSE "login"
    /\ UNCHANGED <<svcVars, parseVars, fetchVars, clockVars>>
    /\ UNCHANGED <<stateModel, lastContent, lastContentType, generatedMetadata,
                   errorLine, commands, exported, appStoreUrl, failure, dispatched>>

\* the login sub-flow of run(): the confirm prompt (Ctrl-C, no, yes), then
\* startLoginFlow() and the second checkAuth()
Login ==
    /\ Running /\ opc = "login"
    /\ \E answer \in {"interrupt", "no", "yes"}, loginSuccess \in BOOLEAN,
          recheck \in BOOLEAN :
        IF answer \in {"interrupt", "no"}
        THEN /\ exitCode' = <<0>> /\ opc' = "exited"
             /\ UNCHANGED errorLine
        ELSE IF ~loginSuccess
        THEN /\ exitCode' = <<1>> /\ opc' = "exited"
             /\ errorLine' = <<"Login failed or was cancelled.">>
        ELSE IF ~recheck
        THEN /\ exitCode' = <<1>> /\ opc' = "exited"
             /\ errorLine' = <<"Still not authenticated after login attempt.">>
        ELSE /\ opc' = "setup"
             /\ UNCHANGED <<exitCode, errorLine>>
    /\ UNCHANGED <<svcCore, calls, lastCall, parseVars, fetchVars, clockVars>>
    /\ UNCHANGED <<stateModel, lastContent, lastContentType, generatedMetadata,
                   commands, exported, appStoreUrl, failure, dispatched>>

\* what listModels() answers at startup
StartupModels ==
    <<[id |-> "gpt-4o", multiplier |-> <<0>>], [id |-> "gpt-4.1", multiplier |-> <<>>]>>

\* `await fetchAvailableModels()`, then the prompts of run() before the
\* service exists; Ctrl-C at one of them ends the process at once
Startup ==
    /\ Running /\ opc = "setup"
    /\ \/ /\ exitCode' = <<0>> /\ opc' = "exited"
          /\ UNCHANGED <<stateModel, currentModel>>
       \/ \E m \in SwitchTargets :
          /\ stateModel' = m /\ currentModel' = m
          /\ opc' = "init"
          /\ UNCHANGED exitCode
    /\ \E ok \in BOOLEAN :
        cachedModels' = IF ok THEN <<AvailableModels(StartupModels)>> ELSE cachedModels
    /\ UNCHANGED fetchers
    /\ UNCHANGED <<client, session, destroyed, createCalls, destroyCalls,
                   generatedContent, quotaInfo, handlers, stalePending, promptsSent,
                   spc, req, ret, thrown, evCount>>
    /\ UNCHANGED <<lastContent, lastContentType, generatedMetadata, errorLine,
                   commands, exported, appStoreUrl, failure, dispatched>>
    /\ NoCall /\ UNCHANGED <<parseVars, clockVars>>

\* `await state.service.initialize()` and its catch block
LoopInitialize ==
    /\ opc = "init"
    /\ \E ok \in BOOLEAN :
        /\ Initialize(ok)
        /\ IF ok
           THEN opc' = "prompt" /\ UNCHANGED <<exitCode, errorLine>>
           ELSE opc' = "exited" /\ exitCode' = <<1>> /\ errorLine' = thrown'
    /\ UNCHANGED <<stateModel, lastContent, lastContentType, generatedMetadata,
                   commands, exported, appStoreUrl, failure, dispatched>>
    /\ NoCall /\ UNCHANGED <<parseVars, fetchVars, clockVars>>

\* promptCommand() throws ExitPromptError
InterruptAtPrompt ==
    /\ AtPrompt
    /\ Interrupted
    /\ dispatched' = <<>>
    /\ UNCHANGED <<stateModel, lastContent, lastContentType, generatedMetadata,
                   commands, exported, appStoreUrl>>
    /\ UNCHANGED <<parseVars, fetchVars>>

CmdQuit ==
    /\ \E c \in Typed("quit") : Reads(c)
    /\ ExitAfterCleanup
    /\ Quiet
    /\ UNCHANGED <<stateModel, lastContent, lastContentType, generatedMetadata,
                   exported, appStoreUrl>>
    /\ UNCHANGED <<parseVars, fetchVars, clockVars>>

\* help, clear, a chat command with an empty message, a command without a
\* type: nothing but the screen changes
CmdDisplay ==
    /\ \E c \in LoopCommands :
        /\ \/ CommandType(c) \in {"help", "clear", "undefined"}
           \/ CommandType(c) = "chat" /\ c.message = ""
        /\ Reads(c)
    /\ Quiet
    /\ UNCHANGED <<opc, stateModel, lastContent, lastContentType, generatedMetadata,
                   exported, appStoreUrl>>
    /\ UNCHANGED <<svcVars, parseVars, fetchVars, clockVars>>

\* last and copy: an error line when there is no content yet
CmdLastCopy ==
    /\ \/ /\ \E c \in Typed("last") : Reads(c)
          /\ errorLine' = IF lastContent # "" /\ lastContentType # <<>>
                          THEN <<>> ELSE <<"No content generated yet.">>
       \/ /\ \E c \in Typed("copy") : Reads(c)
          /\ errorLine' = IF lastContent # "" THEN <<>>
                          ELSE <<"Nothing to copy yet. Generate some content first.">>
    /\ failure' = <<>>
    /\ UNCHANGED <<opc, stateModel, lastContent, lastContentType, generatedMetadata,
                   exported, appStoreUrl>>
    /\ UNCHANGED <<svcVars, parseVars, fetchVars, clockVars>>

\* case "model": promptModel, then switchModel when the model differs; an
\* error of switchModel is thrown on and run() rejects: with nothing to
\* catch it, the runtime ends the process (`fatal`) or only warns
CmdModel ==
    /\ \E c \in Typed("model") : Reads(c)
    /\ \/ /\ Interrupted
          /\ UNCHANGED stateModel
       \/ \E newModel \in SwitchTargets :
          /\ IF newModel # stateModel
             THEN /\ \E destroyOk \in BOOLEAN, createOk \in BOOLEAN :
                        SwitchModel(newModel, destroyOk, createOk)
                  /\ Called([op |-> "switchModel", model |-> newModel])
                  /\ errorLine' = <<>>
                  /\ IF thrown' = <<>>
                     THEN /\ stateModel' = newModel
                          /\ failure' = <<>>
                          /\ UNCHANGED <<opc, exitCode>>
                     ELSE /\ failure' = Raised("model", thrown'[1], FALSE)
                          /\ opc' = "escaped"
                          /\ \E fatal \in BOOLEAN :
                                exitCode' = IF fatal THEN <<1>> ELSE exitCode
                          /\ UNCHANGED stateModel
             ELSE /\ Quiet
                  /\ UNCHANGED <<svcVars, opc, stateModel>>
          /\ UNCHANGED clockVars
    /\ UNCHANGED <<lastContent, lastContentType, generatedMetadata, exported,
                   appStoreUrl>>
    /\ UNCHANGED <<parseVars, fetchVars>>

\* handleExport(): `written` says whether mkdir and writeFile succeeded
CmdExport ==
    /\ \E c \in Typed("export") : Reads(c)
    /\ IF ~hasMetadata
       THEN /\ errorLine' = <<"No metadata generated yet.">>
            /\ failure' = <<>>
            /\ UNCHANGED exported
       ELSE \E written \in BOOLEAN :
            IF written
            THEN /\ exported' = <<exportStoreConfig(generatedMetadata)>>
                 /\ Quiet
            ELSE /\ errorLine' = <<"Export failed">>
                 /\ failure' = Raised("export", "Export failed", TRUE)
                 /\ UNCHANGED exported
    /\ UNCHANGED <<opc, stateModel, lastContent, lastContentType, generatedMetadata,
                   appStoreUrl>>
    /\ UNCHANGED <<svcVars, parseVars, fetchVars, clockVars>>

\* handleImportUrl(): `fetched` is the answer of the lookup service
CmdUrl ==
    /\ \E c \in Typed("url") : Reads(c)
    /\ \/ /\ Interrupted
          /\ UNCHANGED appStoreUrl
       \/ \E url \in UrlInputs, fetched \in BOOLEAN :
          /\ IF url = ""
             THEN errorLine' = <<>> /\ UNCHANGED appStoreUrl
             ELSE IF ~isAppStoreUrl(url)
             THEN /\ errorLine' = <<"Please enter a valid App Store URL or app ID">>
                  /\ UNCHANGED appStoreUrl
             ELSE IF extractAppStoreId(url) = <<>> \/ ~fetched
             THEN /\ errorLine' = <<"Could not fetch app metadata from that URL">>
                  /\ UNCHANGED appStoreUrl
             ELSE errorLine' = <<>> /\ appStoreUrl' = <<url>>
          /\ failure' = <<>>
          /\ UNCHANGED <<svcVars, opc, clockVars>>
    /\ UNCHANGED <<stateModel, lastContent, lastContentType, generatedMetadata, exported>>
    /\ UNCHANGED <<parseVars, fetchVars>>

\* handleIcon / handleFeature: handleImageGeneration(imageType, prompt)
CmdImage ==
    /\ \E t \in {"icon", "feature"} :
        /\ \E c \in Typed(t) : Reads(c)
        /\ \/ /\ Interrupted
              /\ UNCHANGED generatedMetadata
           \/ \E outcome \in {"no provider", "cancel", "generated", "failed"} :
              /\ errorLine' = IF outcome = "no provider"
                              THEN <<"No image generation API key found.">>
                              ELSE IF outcome = "failed"
                              THEN <<"generation failed">>
                              ELSE <<>>
              /\ failure' = IF outcome = "failed"
                            THEN Raised(t, "generation failed", TRUE) ELSE <<>>
              /\ generatedMetadata' =
                    IF outcome # "generated" THEN generatedMetadata
                    ELSE IF t = "icon"
                    THEN [generatedMetadata EXCEPT !["iconPath"] = <<"icon.png">>]
                    ELSE [generatedMetadata EXCEPT !["featureGraphicPath"] = <<"feature.png">>]
              /\ UNCHANGED <<svcVars, opc, clockVars>>
    /\ UNCHANGED <<stateModel, lastContent, lastContentType, exported, appStoreUrl>>
    /\ UNCHANGED <<parseVars, fetchVars>>

\* handleContent(type) up to the return of a cached text or the first await
CmdContent ==
    /\ \E c \in Typed("content") :
        /\ Reads(c)
        /\ Generate(c.contentType, FALSE)
        /\ Called([op |-> "generate", kind |-> c.contentType, regenerate |-> FALSE])
        /\ IF spc' = "ready"
           THEN AfterCall("generate", c.contentType, ret'[1])
           ELSE /\ opc' = "call"
                /\ Quiet
                /\ UNCHANGED <<lastContent, lastContentType, generatedMetadata>>
    /\ UNCHANGED <<stateModel, exported, appStoreUrl, exitCode>>
    /\ UNCHANGED <<parseVars, fetchVars, clockVars>>

noLastContentType == lastContentType = <<>>

\* `!state.lastContent || !state.lastContentType`
noLastContent == lastContent = "" \/ lastContentType = <<>>

\* handleChat(message) up to its first await
CmdChat ==
    /\ \E c \in Typed("chat") : c.message # "" /\ Reads(c)
    /\ failure' = <<>>
    /\ IF noLastContent
       THEN /\ errorLine' = <<"Generate some content first">>
            /\ UNCHANGED <<svcVars, opc>>
       ELSE /\ RefineContent(lastContentType[1])
            /\ Called([op |-> "refine", kind |-> lastContentType[1]])
            /\ opc' = "call"
            /\ errorLine' = <<>>
            /\ UNCHANGED exitCode
    /\ UNCHANGED <<stateModel, lastContent, lastContentType, generatedMetadata,
                   exported, appStoreUrl>>
    /\ UNCHANGED <<parseVars, fetchVars, clockVars>>

\* handleScore(keyword) up to its first await
CmdScore ==
    /\ \E c \in Typed("score") : Reads(c)
    /\ ScoreKeyword
    /\ Called([op |-> "score"])
    /\ opc' = "call"
    /\ Quiet
    /\ UNCHANGED <<stateModel, lastContent, lastContentType, generatedMetadata,
                   exported, appStoreUrl, exitCode>>
    /\ UNCHANGED <<parseVars, fetchVars, clockVars>>

LoopRest ==
    /\ UNCHANGED <<stateModel, commands, exported, appStoreUrl>>
    /\ dispatched' = <<>>
    /\ NoCall /\ UNCHANGED <<parseVars, fetchVars, clockVars>>

LoopDeliver ==
    /\ opc \in {"prompt", "call"}
    /\ \E e \in LoopEvents, fatal \in BOOLEAN : DeliverEvent(e, fatal)
    /\ Continuation
    /\ LoopRest

LoopSendReturns ==
    /\ SendReturns
    /\ Continuation
    /\ LoopRest

LoopSendThrows ==
    /\ SendThrows
    /\ Continuation
    /\ LoopRest

Init ==
    /\ input = "" /\ parsed = <<>> /\ canonical = <<>>
    /\ ServiceIdle /\ OrchIdle /\ ClockIdle /\ FetchIdle

Next ==
    \/ Authenticate \/ Login \/ Startup \/ LoopInitialize \/ InterruptAtPrompt
    \/ CmdQuit \/ CmdDisplay \/ CmdLastCopy \/ CmdModel \/ CmdExport \/ CmdUrl
    \/ CmdImage \/ CmdContent \/ CmdChat \/ CmdScore
    \/ LoopDeliver \/ LoopSendReturns \/ LoopSendThrows

Spec == Init /\ [][Next]_vars

\* C6: a failure raised inside a command handler is shown as an error line
\* and the loop goes on to read the next command; it does not leave run()
\* and does not end the process.
C6_HandlerFailuresAreCaught ==
    failure # <<>> =>
        /\ failure[1].shown /\ errorLine # <<>>
        /\ opc = "prompt" /\ Running

\* C8: a field of the accumulator (title, subtitle, description, keywords,
\* releaseNotes, promoText) that holds a value holds a value after every
\* further step of the program.
C8_FieldNeverCleared ==
    [][\A f \in ConfigFields :
            generatedMetadata[f] # <<>> => generatedMetadata'[f] # <<>>]_vars

-----------------------------------------------------------------------------
(* SpecContent: the loop of a user who only generates, refines and scores  *)
(* content and is never interrupted.                                       *)

NextContent ==
    \/ Authenticate \/ Login \/ Startup \/ LoopInitialize
    \/ CmdDisplay \/ CmdContent \/ CmdChat \/ CmdScore
    \/ LoopDeliver \/ LoopSendReturns \/ LoopSendThrows

SpecContent == Init /\ [][NextContent]_vars

\* the accumulator fields a result of kind k is stored in
OwnFields(k) ==
    IF k = "full" THEN {"title", "description", "keywords"}
    ELSE {k} \cap MetadataFields

\* the value storeMetadata extracts from a text for field f
Extracted(f, content) ==
    IF f \in {"title", "subtitle", "promoText"} THEN extractFirstOption(content)
    ELSE IF f = "keywords" THEN <<parseKeywordsFromContent(content)>>
    ELSE extractDescription(content)

\* C24: a step changes a field of the accumulator only when it returns a
\* successful result of a generate or refine call, and only the fields of
\* the kind of that result (title, description and keywords for full);
\* after such a step each of these fields holds the value extracted from
\* the result and every other field holds what it held before.
C24_StoreWritesOwnFieldsOnly ==
    [][LET returned == /\ opc' = "prompt" /\ spc' = "ready" /\ failure' = <<>>
                       /\ lastCall'.op \in {"generate", "refine"}
                       /\ \/ opc = "call"
                          \/ (commands' # commands
                              /\ CommandType(dispatched'[1]) = "content")
                       /\ ret' # <<>> /\ ret'[1].success
       IN  /\ generatedMetadata' # generatedMetadata => returned
           /\ returned =>
                \A f \in MetadataFields :
                    generatedMetadata'[f] =
                        IF f \in OwnFields(lastContentType'[1])
                        THEN Extracted(f, ret'[1].content)
                        ELSE generatedMetadata[f]]_vars

C24_Witness ==
    /\ lastCall.op = "generate" /\ lastCall.kind = "title" /\ opc = "prompt"
    /\ generatedMetadata["title"] = <<"Fit">>
    /\ generatedMetadata["description"] = <<"Long body text">>
    /\ generatedMetadata["keywords"] # <<>>

\* C14: a chat command with a message, read while there is no last content,
\* shows an error line and does nothing else: no prompt is sent, no service
\* call is made, last content, its kind, the accumulator and the cache stay
\* as they were and the loop is at the prompt again; a chat command with an
\* empty message changes nothing at all and shows no error line.
C14_ChatWithoutContent ==
    [][(commands' = commands + 1 /\ CommandType(dispatched'[1]) = "chat")
       => IF dispatched'[1].message = ""
          THEN /\ errorLine' = <<>>
               /\ UNCHANGED <<svcCore, exitCode, calls, opc, stateModel, lastContent,
                              lastContentType, generatedMetadata, exported>>
          ELSE (lastContent = "" \/ lastContentType = <<>>)
               => /\ errorLine' # <<>>
                  /\ promptsSent' = promptsSent /\ calls' = calls
                  /\ opc' = "prompt" /\ exitCode' = <<>>
                  /\ UNCHANGED <<lastContent, lastContentType, generatedMetadata,
                                 generatedContent, svcCore>>]_vars

\* C18: when a generation or a refinement returns a failure to its command
\* handler, last content, its kind and every field of the accumulator are
\* what they were, the process runs on, and the loop is at the prompt again
\* with the same session, not destroyed.
C18_FailedGenerationKeepsState ==
    [][(/\ spc # "ready" /\ spc' = "ready"
        /\ req'.op \in {"generate", "refine"}
        /\ ~ret'[1].success)
       => (/\ UNCHANGED <<lastContent, lastContentType, generatedMetadata>>
           /\ opc' = "prompt" /\ exitCode' = <<>>
           /\ session' = session /\ session \notin destroyed')]_vars

C14_Witness ==
    /\ dispatched = <<[type |-> "chat", message |-> "shorter"]>>
    /\ lastContent = "" /\ promptsSent = 1
    /\ errorLine = <<"Generate some content first">>
    /\ opc = "prompt" /\ Running

-----------------------------------------------------------------------------
(* SpecContentFair: SpecContent with a backend that answers.  session.send *)
(* settles, and while a request is in flight the backend goes on to emit a *)
(* session.idle or session.error event until it has emitted MaxEvents      *)
(* events.                                                                 *)

\* the backend emits session.idle or session.error for the request in
\* flight; the action is enabled exactly while a request is in flight and
\* the backend has events left, and a step of it ends the wait for `done`
TerminalEmitted ==
    /\ spc \in {"sending", "awaiting"}
    /\ \E e \in LoopEvents, fatal \in BOOLEAN :
        /\ e.type \in {"session.idle", "session.error"}
        /\ DeliverEvent(e, fatal)
    /\ UNCHANGED <<calls, lastCall>> /\ Rest

\* `await this.session.send()` settles; the action is enabled exactly while
\* send() is outstanding
SendSettles == SvcSendReturns \/ SvcSendThrows

SpecContentFair ==
    /\ SpecContent
    /\ WF_vars(TerminalEmitted)
    /\ WF_vars(SendSettles)

\* C25: a content, refinement or score command whose call is awaited leads
\* back to the command prompt, unless the backend has stopped emitting
\* events; and an awaited request completes only in a step that delivers
\* an event once a terminal event has reached its handler, never by itself.
C25_CommandReturnsToPrompt ==
    /\ (opc = "call") ~> (opc = "prompt" \/ evCount = MaxEvents)
    /\ [][(spc = "awaiting" /\ spc' = "ready")
            => (evCount' = evCount + 1 /\ req'.terminal # <<>>)]_vars

\* what does hold for C25: the command leads back to the prompt unless the
\* backend has stopped emitting events or the process has ended
C25_ReturnsUnlessProcessEnded ==
    /\ (opc = "call") ~> (opc = "prompt" \/ evCount = MaxEvents \/ ~Running)
    /\ [][(spc = "awaiting" /\ spc' = "ready")
            => (evCount' = evCount + 1 /\ req'.terminal # <<>>)]_vars

-----------------------------------------------------------------------------
(* SpecSwitch: the loop of a user who generates, refines and scores        *)
(* content, switches the model and exports.                                *)

NextSwitch ==
    \/ Authenticate \/ Login \/ Startup \/ LoopInitialize
    \/ CmdModel \/ CmdExport \/ CmdContent \/ CmdChat \/ CmdScore
    \/ LoopDeliver \/ LoopSendReturns \/ LoopSendThrows

SpecSwitch == Init /\ [][NextSwitch]_vars

\* C30: last content is non-empty only when its kind is set; the kind
\* changes only in the step in which a generate call of a content command
\* returns a success, and then it is the kind of that command: refinement,
\* scoring, export, model switch and failed commands leave it as it was.
C30_LastContentTypeTracksGenerate ==
    [][LET generated == /\ opc' = "prompt" /\ spc' = "ready" /\ failure' = <<>>
                        /\ lastCall'.op = "generate"
                        /\ \/ opc = "call"
                           \/ (commands' # commands
                               /\ CommandType(dispatched'[1]) = "content")
                        /\ ret' # <<>> /\ ret'[1].success
       IN  /\ lastContent' # "" => lastContentType' # <<>>
           /\ lastContentType' # lastContentType => generated
           /\ generated => (/\ lastContentType' = <<lastCall'.kind>>
                            /\ lastContent' = ret'[1].content)]_vars

C30_Witness ==
    /\ lastContentType = <<"title">> /\ lastContent # ""
    /\ lastCall.op = "refine" /\ failure # <<>> /\ opc = "prompt"

\* C22: under the chat loop a prompt is sent, a command is read and the
\* model is switched only while no request is in flight on the session:
\* the call of the previous command has returned, so at most one request is
\* in flight and none while switchModel runs.
C22_OneRequestAtATime ==
    [][/\ promptsSent' # promptsSent => (spc = "ready" /\ spc' = "sending")
       /\ commands' # commands => (spc = "ready" /\ opc = "prompt")
       /\ (calls' # calls /\ lastCall'.op = "switchModel")
           => (spc = "ready" /\ spc' = "ready")
       /\ (session' # session \/ currentModel' # currentModel) => spc = "ready"
       /\ spc \in {"sending", "awaiting"}
           => (promptsSent' = promptsSent /\ session' = session)]_vars

C22_Witness ==
    /\ promptsSent = 1 /\ req.done = "resolved" /\ spc = "ready"
    /\ commands = 2 /\ lastCall.op = "switchModel" /\ session = 2

-----------------------------------------------------------------------------
(* SpecCtrlC: the loop of a user who starts no generation.  The handlers   *)
(* that stream never read or write lastCtrlCTime, and an interrupt reaches *)
(* handleCtrlC() only through a prompt; without the streams more           *)
(* interrupts fit into the bounds.                                         *)

NextCtrlC ==
    \/ Authenticate \/ Login \/ Startup \/ LoopInitialize \/ InterruptAtPrompt
    \/ CmdQuit \/ CmdDisplay \/ CmdLastCopy \/ CmdModel \/ CmdExport \/ CmdUrl
    \/ CmdImage

SpecCtrlC == Init /\ [][NextCtrlC]_vars

\* C7: an interrupt handled by the loop ends the process (cleanup done,
\* exit code 0) when the interrupt before it came less than 1000 ms
\* earlier; the first interrupt, and one that comes 1000 ms or more after
\* the interrupt before it, leaves the process running at the command
\* prompt with the session as it was, and the window starts anew at its time.
C7_DoubleInterruptExits ==
    [][Len(interrupts') = Len(interrupts) + 1 =>
        LET t == interrupts'[Len(interrupts')]
            within == interrupts # <<>> /\ t - interrupts[Len(interrupts)] < 1000
        IN  IF within
            THEN /\ exitCode' = <<0>> /\ opc' = "exited" /\ spc' = "closed"
                 /\ session # 0 => destroyCalls' = destroyCalls + 1
            ELSE /\ exitCode' = <<>> /\ opc' = "prompt"
                 /\ lastCtrlCTime' = t
                 /\ UNCHANGED <<session, destroyed, spc>>]_vars

\* C16: cleanup() throws nothing whatever fails inside it: when the destroy
\* of the session fails the stop of the client is still tried, and a
\* failure of stop() and of the forceStop() tried after it is swallowed; so
\* a quit command and a double interrupt end the process with exit code 0.
C16_CleanupNeverThrows ==
    /\ lastCall.op = "cleanup" =>
            /\ thrown = <<>>
            /\ client => lastCall.stopTried
            /\ exitCode = <<0>> /\ opc = "exited"
    /\ (dispatched # <<>> /\ CommandType(dispatched[1]) = "quit") => exitCode = <<0>>

C16_Witness ==
    /\ lastCall.op = "cleanup"
    /\ lastCall.destroyFailed /\ lastCall.stopTried /\ lastCall.forceStopFailed
    /\ Len(interrupts) = 2 /\ thrown = <<>>
    /\ exitCode = <<0>> /\ opc = "exited"

\* C15: from the login sub-flow, entered when the authentication check at
\* start-up reports unauthenticated, the process either goes on to the
\* set-up prompts and the loop, or it ends with an exit code other than 0.
C15_LoginOrNonZeroExit ==
    [][opc = "login" =>
        \/ opc' = "setup" /\ exitCode' = <<>>
        \/ opc' = "exited" /\ exitCode' # <<>> /\ exitCode'[1] # 0]_vars

\* C13: an /export read while no field of the accumulator holds a value
\* shows an error line, writes no file and leaves the loop at the prompt
\* with the process running; a step writes a configuration file only when
\* a field of the accumulator holds a value.
C13_ExportNeedsMetadata ==
    [][/\ (/\ commands' = commands + 1
            /\ CommandType(dispatched'[1]) = "export"
            /\ \A f \in MetadataFields : generatedMetadata[f] = <<>>)
           => (/\ errorLine' # <<>> /\ exported' = exported
               /\ opc' = "prompt" /\ exitCode' = <<>>
               /\ UNCHANGED <<generatedMetadata, svcCore>>)
       /\ exported' # exported
           => \E f \in MetadataFields : generatedMetadata[f] # <<>>]_vars

C13_Witness ==
    /\ dispatched # <<>> /\ CommandType(dispatched[1]) = "export"
    /\ \A f \in MetadataFields : generatedMetadata[f] = <<>>
    /\ errorLine = <<"No metadata generated yet.">>
    /\ exported = <<>> /\ opc = "prompt" /\ Running

C7_Witness ==
    /\ Len(interrupts) = 2
    /\ interrupts[2] - interrupts[1] = 999
    /\ lastCtrlCTime = interrupts[1]
    /\ exitCode = <<0>> /\ session \in destroyed

====
